---- MODULE Spec2Model ----
(***************************************************************************)
(* A model of rasa/utils/tf_model_data.py: the RasaModelData container.    *)
(*                                                                         *)
(* self.data is an insertion-ordered dict  key -> list of columns.  It is  *)
(* modelled as a sequence of records [key, cols]; a column is a sequence   *)
(* of rows (a 2-D array: every row is a sequence of numbers of one width). *)
(* Rows are 1-based here, 0-based in the source.                           *)
(*                                                                         *)
(* A table is built from the empty one by add_features and add_mask and    *)
(* then handed to one of shuffle, balance, split or _gen_batch (the        *)
(* lifecycle of a table: built once, then reordered and consumed).  The    *)
(* history variables pre, op, err and args record the last call: the table *)
(* before it, its name, what it raised ("none" if it returned) and its     *)
(* arguments; train, test and batches hold what split and _gen_batch       *)
(* returned, result what get_number_of_examples returned, and run the      *)
(* bookkeeping of the last call of balance when its loop ended.            *)
(***************************************************************************)
EXTENDS Integers, Sequences, FiniteSets, TLC

\* ------------------------------------------------------------------ bounds
MaxRows == 5
NumLabels == 3
MaxBatch == 2
ShuffleRows == 3
BalanceRows == 4
LongRows == 7

VARIABLES data, pre, op, err, args, train, test, batches, result, run

vars == <<data, pre, op, err, args, train, test, batches, result, run>>

\* ---------------------------------------------------------------- helpers
Range(s) == {s[i] : i \in 1..Len(s)}

RECURSIVE SumSeq(_)
SumSeq(s) == IF s = <<>> THEN 0 ELSE s[1] + SumSeq(Tail(s))

RECURSIVE Flatten(_)
Flatten(ss) == IF ss = <<>> THEN <<>> ELSE ss[1] \o Flatten(Tail(ss))

Min(a, b) == IF a < b THEN a ELSE b

\* The injective index arrays over 1..n: what np.random.permutation(n) draws
\* (tabulated once for the sizes the model permutes).
PermTable ==
    [n \in 0..MaxRows |->
        {p \in [1..n -> 1..n] : \A i, j \in 1..n : p[i] = p[j] => i = j}]

PermSeqs(n) == PermTable[n]

\* ------------------------------------------------------------- the table
DictKeys(d) == [j \in 1..Len(d) |-> d[j].key]

HasKey(d, k) == \E j \in 1..Len(d) : d[j].key = k

KeyPos(d, k) == CHOOSE j \in 1..Len(d) : d[j].key = k

Get(d, k) == d[KeyPos(d, k)].cols

\* d[k] = cols: a present key keeps its position, a new key goes last.
DictSet(d, k, cols) ==
    IF HasKey(d, k)
    THEN [d EXCEPT ![KeyPos(d, k)] = [key |-> k, cols |-> cols]]
    ELSE Append(d, [key |-> k, cols |-> cols])

\* for values in self.data.values() for v in values
AllCols(d) == Flatten([j \in 1..Len(d) |-> d[j].cols])

\* numpy's array.size: rows times row width.
Size(col) == IF Len(col) = 0 THEN 0 ELSE Len(col) * Len(col[1])

\* v[ids] for an array of row indices.
Take(col, ids) == [i \in 1..Len(ids) |-> col[ids[i]]]

\* A slice that loses its last row.
SliceShort(col, start, end) == SubSeq(col, start + 1, Min(end, Len(col)) - 1)

\* v[start:end] for 0-based start <= end, truncated at the column's length.
Slice(col, start, end) == SubSeq(col, start + 1, Min(end, Len(col)))

\* ------------------------------------------------- get_number_of_examples
ExampleLengths(d) == [i \in 1..Len(AllCols(d)) |-> Len(AllCols(d)[i])]

GetNumberOfExamplesErr(d) ==
    IF \E i \in 1..Len(ExampleLengths(d)) : ExampleLengths(d)[i] # ExampleLengths(d)[1]
    THEN "SizesDiffer"
    ELSE IF ExampleLengths(d) = <<>> THEN "IndexError" ELSE "none"

GetNumberOfExamples(d) == ExampleLengths(d)[1]

\* ----------------------------------------------------------- _data_for_ids
\* new_data is a defaultdict(list): a key with no column is never touched
\* and so is absent from the result.
TakeRows(touched, ids) ==
    [j \in 1..Len(touched) |->
        [key |-> touched[j].key,
         cols |-> [i \in 1..Len(touched[j].cols) |-> Take(touched[j].cols[i], ids)]]]

DataForIds(d, ids) ==
    CHOOSE new_data \in {TakeRows(touched, ids) :
                            touched \in {SelectSeq(d, LAMBDA e : Len(e.cols) > 0)}} : TRUE

\* ------------------------------------------------------ inputs of the calls
Keys == {"label", "text"}

LabelKeys == Keys \cup {"intent"}

EmptyCol == <<>>

ZeroWidthCol == << <<>>, <<>> >>

IdCol(n) == [i \in 1..n |-> <<i>>]

AltCol(n) == [i \in 1..n |-> <<10 + i>>]

\* Label columns of 1..MaxRows rows over the ids 1..NumLabels, in every row
\* order, each id first used after all smaller ones (a renaming of ids
\* changes no grouping).
LabelCols ==
    UNION {{[i \in 1..n |-> <<t[i]>>] :
              t \in {u \in [1..n -> 1..NumLabels] :
                        /\ u[1] = 1
                        /\ \A i \in 2..n : \E j \in 1..(i - 1) : u[i] <= u[j] + 1}} :
           n \in 1..MaxRows}

\* Longer label columns of two classes, the small one first: tables on which
\* balance comes back to a class of several rows that has completed a pass.
LongLabelCols ==
    {[i \in 1..n |-> <<IF i <= small THEN 1 ELSE 2>>] :
        n \in (MaxRows + 1)..LongRows, small \in 1..2}

EmptyLists == {<<>>, <<ZeroWidthCol, EmptyCol>>}

\* The column lists add_features is called with, per key.
FeatureLists ==
    [key \in Keys |->
        IF key = "label"
        THEN {<<c>> : c \in LabelCols \cup LongLabelCols}
        ELSE {<<IdCol(n), ZeroWidthCol, AltCol(n)>> : n \in 1..LongRows}
             \cup EmptyLists]

\* What the history keeps of a column list: its length and how many of its
\* columns have elements.
Given(features) == Len(features)

Kept(features) == Len(SelectSeq(features, LAMBDA c : Size(c) > 0))

\* One list of FeatureLists[key] for every (Given, Kept): a call on a key that
\* is already present reads nothing else of its list.
SampleLists ==
    [key \in Keys |->
        {CHOOSE f \in FeatureLists[key] : <<Given(f), Kept(f)>> = gk :
            gk \in {<<Given(f), Kept(f)>> : f \in FeatureLists[key]}}]

Offered(d, key) ==
    IF \E j \in 1..Len(d) : d[j].key = key THEN SampleLists[key] ELSE FeatureLists[key]

NoArgs == [none |-> TRUE]

\* The bookkeeping of balance before any call of it.
NoRun == [data_idx |-> <<>>, num_data_cycles |-> <<>>, skipped |-> <<>>,
          log |-> <<>>, taken |-> <<>>, visits |-> <<>>]

\* ------------------------------------------------------------------- Init
Init ==
    /\ data = <<>>
    /\ pre = <<>>
    /\ op = "init"
    /\ err = "none"
    /\ args = NoArgs
    /\ train = <<>>
    /\ test = <<>>
    /\ batches = <<>>
    /\ result = "none"
    /\ run = NoRun

\* The table is still being built: no shuffle, balance, split or _gen_batch
\* was called on it yet.  What a call does depends on the table alone, so the
\* calls are taken from the fresh table and after each add_features and
\* add_mask that changed it; after one that changed nothing the table is the
\* one before it, whose calls are all taken there.
Building == op = "init" \/ (op \in {"add_features", "add_mask"} /\ data # pre)

\* ----------------------------------------------------------- add_features
\* add_features with the key looked up before the empty list is let through.
AddFeaturesErrKeyFirst(d, key, features) ==
    IF HasKey(d, key) THEN "KeyExists" ELSE "none"

AddFeaturesErr(d, key, features) ==
    IF features = <<>> THEN "none"
    ELSE IF HasKey(d, key) THEN "KeyExists"
    ELSE "none"

AddFeaturesData(d, key, features) ==
    LET kept == SelectSeq(features, LAMBDA c : Size(c) > 0)
    IN  IF features = <<>> \/ kept = <<>> THEN d ELSE DictSet(d, key, kept)

AddFeatures ==
    \E key \in Keys : \E features \in Offered(data, key) :
        /\ Building
        /\ op' = "add_features"
        /\ args' = [key |-> key, given |-> Given(features), kept |-> Kept(features)]
        /\ pre' = data
        /\ err' = AddFeaturesErr(data, key, features)
        /\ data' = IF err' = "none" THEN AddFeaturesData(data, key, features) ELSE data
        /\ UNCHANGED <<train, test, batches, result, run>>

\* ------------------------------------------- get_number_of_examples, called
GetNumberOfExamplesCall ==
    /\ Building
    /\ op' = "get_number_of_examples"
    /\ args' = NoArgs
    /\ pre' = data
    /\ err' = GetNumberOfExamplesErr(data)
    /\ result' = IF err' = "none" THEN GetNumberOfExamples(data) ELSE result
    /\ UNCHANGED <<data, train, test, batches, run>>

\* ---------------------------------------------------------------- shuffle
ShuffleErr(d) == GetNumberOfExamplesErr(d)

ShuffleOutcomes(d) ==
    {DataForIds(d, ids) : ids \in PermSeqs(GetNumberOfExamples(d))}

Shuffle ==
    /\ Building
    /\ op' = "shuffle"
    /\ args' = NoArgs
    /\ pre' = data
    /\ err' = ShuffleErr(data)
    /\ IF err' = "none"
       THEN /\ GetNumberOfExamples(data) <= ShuffleRows
            /\ data' \in ShuffleOutcomes(data)
       ELSE data' = data
    /\ UNCHANGED <<train, test, batches, result, run>>

\* --------------------------------------------------------------- add_mask
\* np.array([np.ones((x.shape[0], 1)) for x in data]): one block of ones per
\* row, as long as the row.
MaskOf(col) == [i \in 1..Len(col) |-> [j \in 1..Len(col[i]) |-> 1]]

\* The loop reads self.data[from_key] after self.data[key] = [] was stored:
\* with key = from_key it iterates the list that was just emptied.
AddMaskData(d, key, from_key) ==
    IF ~HasKey(d, from_key) \/ Get(d, from_key) = <<>> THEN d
    ELSE LET cleared == DictSet(d, key, <<>>)
             source == SelectSeq(Get(cleared, from_key), LAMBDA c : Size(c) > 0)
         IN  IF source = <<>> THEN cleared
             ELSE DictSet(cleared, key, <<MaskOf(source[1])>>)

AddMask ==
    \E key \in Keys : \E from_key \in Keys :
        /\ Building
        /\ op' = "add_mask"
        /\ args' = [key |-> key, from_key |-> from_key]
        /\ pre' = data
        /\ err' = "none"
        /\ data' = AddMaskData(data, key, from_key)
        /\ UNCHANGED <<train, test, batches, result, run>>

\* ------------------------------------------------------- _create_label_ids
\* Every column of the model is 2-D with rows of width 1: label_ids[:, 0].
CreateLabelIds(col) == [i \in 1..Len(col) |-> col[i][1]]

\* np.unique(label_ids, return_counts=True): the distinct ids in ascending
\* order, and how often each occurs.
RECURSIVE SortedSeq(_)
SortedSeq(S) ==
    IF S = {} THEN <<>>
    ELSE LET m == CHOOSE x \in S : \A y \in S : x <= y
         IN  <<m>> \o SortedSeq(S \ {m})

UniqueLabelIds(label_ids) == SortedSeq(Range(label_ids))

CountOf(label_ids, id) == Cardinality({i \in 1..Len(label_ids) : label_ids[i] = id})

CountsLabelIds(label_ids) ==
    [c \in 1..Len(UniqueLabelIds(label_ids)) |->
        CountOf(label_ids, UniqueLabelIds(label_ids)[c])]

\* -------------------------------------------------------- _check_label_key
CheckLabelKeyErr(d, label_key) ==
    IF ~HasKey(d, label_key) \/ Len(Get(d, label_key)) > 1 THEN "KeyNotIn" ELSE "none"

\* ----------------------------------------------------- _split_by_label_ids
\* ids = label_ids == label_id is a boolean mask; v[ids] keeps the rows where
\* it is true, in order.
MaskIds(label_ids, label_id) ==
    SelectSeq([i \in 1..Len(label_ids) |-> i], LAMBDA i : label_ids[i] = label_id)

SplitByLabelIds(d, label_ids, unique_label_ids) ==
    [c \in 1..Len(unique_label_ids) |-> DataForIds(d, MaskIds(label_ids, unique_label_ids[c]))]

\* ---------------------------------------------------------------- balance
\* What balance raises before it assigns self.data, "none" if nothing.
BalanceErr(d, label_key) ==
    IF CheckLabelKeyErr(d, label_key) # "none" THEN "KeyNotIn"
    ELSE IF Get(d, label_key) = <<>> THEN "IndexError"
    ELSE IF \E i \in 1..Len(AllCols(d)) :
                Len(AllCols(d)[i]) # Len(Get(d, label_key)[1]) THEN "IndexError"
    ELSE "none"

\* The slice length with the share of the class rounded to the nearest.
IndexBatchSizeRounded(count, num_examples, batch_size) ==
    (2 * count * batch_size + num_examples) \div (2 * num_examples) + 1

\* int(counts_label_ids[index] / num_examples * batch_size) + 1
IndexBatchSize(count, num_examples, batch_size) ==
    (count * batch_size) \div num_examples + 1

MinOf(s) == CHOOSE m \in Range(s) : \A x \in Range(s) : m <= x

\* One pass of the body of `for index in indices_of_labels`.  A visit that
\* is not skipped appends the slice [from, from + size) of every column of its
\* class to new_data: it is recorded in taken, and new_data is built from the
\* records (NewData).  log keeps, round by round, what happened to each class:
\* "skipped", "taken" or, when the round broke off before it, "unvisited".
\* visits keeps, visit by visit, the class, the round, and the cursor, the
\* pass counter and the skip flag of the class before and after the visit.
VisitRecord(st, after, index) ==
    [index |-> index,
     round |-> Len(st.log),
     outcome |-> after.log[Len(st.log)][index],
     data_idx |-> st.data_idx[index],
     num_data_cycles |-> st.num_data_cycles[index],
     skipped |-> st.skipped[index],
     after |-> [data_idx |-> after.data_idx[index],
                num_data_cycles |-> after.num_data_cycles[index],
                skipped |-> after.skipped[index]]]

\* A visit that leaves the skip flag as it is when it takes a slice.
VisitStepKeepsFlag(st, index, counts, num_examples, batch_size) ==
    IF st.num_data_cycles[index] > 0 /\ ~st.skipped[index]
    THEN [st EXCEPT !.skipped[index] = TRUE,
                    !.log[Len(st.log)][index] = "skipped"]
    ELSE LET size == IndexBatchSize(counts[index], num_examples, batch_size)
             from == st.data_idx[index]
             full == from + size >= counts[index]
         IN  [st EXCEPT
                !.data_idx[index] = IF full THEN 0 ELSE from + size,
                !.num_data_cycles[index] = IF full THEN @ + 1 ELSE @,
                !.log[Len(st.log)][index] = "taken",
                !.taken = Append(@, [index |-> index, from |-> from, size |-> size])]

\* A visit that never takes the cursor back to 0.
VisitStepKeepsCursor(st, index, counts, num_examples, batch_size) ==
    IF st.num_data_cycles[index] > 0 /\ ~st.skipped[index]
    THEN [st EXCEPT !.skipped[index] = TRUE,
                    !.log[Len(st.log)][index] = "skipped"]
    ELSE LET size == IndexBatchSize(counts[index], num_examples, batch_size)
             from == st.data_idx[index]
             full == from + size >= counts[index]
         IN  [st EXCEPT
                !.skipped[index] = FALSE,
                !.data_idx[index] = from + size,
                !.num_data_cycles[index] = IF full THEN @ + 1 ELSE @,
                !.log[Len(st.log)][index] = "taken",
                !.taken = Append(@, [index |-> index, from |-> from, size |-> size])]

VisitStep(st, index, counts, num_examples, batch_size) ==
    IF st.num_data_cycles[index] > 0 /\ ~st.skipped[index]
    THEN [st EXCEPT !.skipped[index] = TRUE,
                    !.log[Len(st.log)][index] = "skipped"]
    ELSE LET size == IndexBatchSize(counts[index], num_examples, batch_size)
             from == st.data_idx[index]
             full == from + size >= counts[index]
         IN  [st EXCEPT
                !.skipped[index] = FALSE,
                !.data_idx[index] = IF full THEN 0 ELSE from + size,
                !.num_data_cycles[index] = IF full THEN @ + 1 ELSE @,
                !.log[Len(st.log)][index] = "taken",
                !.taken = Append(@, [index |-> index, from |-> from, size |-> size])]

Visit(st, index, counts, num_examples, batch_size) ==
    CHOOSE recorded \in
        {[after EXCEPT !.visits = Append(@, VisitRecord(st, after, index))] :
            after \in {VisitStep(st, index, counts, num_examples, batch_size)}} : TRUE

\* new_data[k][i].append(v[data_idx : data_idx + index_batch_size]) for every
\* key k and column i of the visited class, visit after visit: new_data[k][i]
\* is the list of the slices taken.
NewData(label_data, taken) ==
    IF taken = <<>> THEN <<>>
    ELSE [j \in 1..Len(label_data[taken[1].index]) |->
            [key |-> label_data[taken[1].index][j].key,
             cols |-> [i \in 1..Len(label_data[taken[1].index][j].cols) |->
                         [p \in 1..Len(taken) |->
                             Slice(label_data[taken[p].index][j].cols[i],
                                   taken[p].from, taken[p].from + taken[p].size)]]]]

\* The for loop without its break: the round is always run to its end.
RECURSIVE RunRoundNoBreak(_, _, _, _, _, _)
RunRoundNoBreak(st, order, pos, counts, num_examples, batch_size) ==
    IF pos > Len(order) THEN {st}
    ELSE UNION {RunRoundNoBreak(after, order, pos + 1, counts, num_examples, batch_size) :
                after \in {Visit(st, order[pos], counts, num_examples, batch_size)}}

\* The for loop over one round's order, from position pos, with its break:
\* the state the round ends in (as a one-element set).
RECURSIVE RunRound(_, _, _, _, _, _)
RunRound(st, order, pos, counts, num_examples, batch_size) ==
    IF pos > Len(order) THEN {st}
    ELSE UNION {IF Len(after.taken) > Len(st.taken) /\ MinOf(after.num_data_cycles) > 0
                THEN {after}
                ELSE RunRound(after, order, pos + 1, counts, num_examples, batch_size) :
                after \in {Visit(st, order[pos], counts, num_examples, batch_size)}}

\* np.random.permutation(num_label_ids) or range(num_label_ids).  Of the
\* permutations the rotations of the ascending and of the descending order are
\* drawn: all permutations of up to three classes, and for more classes orders
\* that bring every class to every place of a round.
RoundOrders(num_label_ids, shuffle) ==
    IF shuffle
    THEN {[c \in 1..num_label_ids |-> ((c - 1 + k) % num_label_ids) + 1] :
             k \in 0..(num_label_ids - 1)}
         \cup {[c \in 1..num_label_ids |-> num_label_ids - ((c - 1 + k) % num_label_ids)] :
                 k \in 0..(num_label_ids - 1)}
    ELSE {[c \in 1..num_label_ids |-> c]}

\* while min(num_data_cycles) == 0: the set of states the loop can end in.
RECURSIVE RunRounds(_, _, _, _, _)
RunRounds(st, counts, num_examples, batch_size, shuffle) ==
    IF MinOf(st.num_data_cycles) # 0 THEN {st}
    ELSE UNION {RunRounds(after, counts, num_examples, batch_size, shuffle) :
                after \in UNION {RunRound([st EXCEPT !.log = Append(@,
                                               [c \in 1..Len(counts) |-> "unvisited"])],
                                          order, 1, counts, num_examples, batch_size) :
                                 order \in RoundOrders(Len(counts), shuffle)}}

\* final_data[k].append(np.concatenate(np.array(v)))
FinalData(new_data) ==
    [j \in 1..Len(new_data) |->
        [key |-> new_data[j].key,
         cols |-> [i \in 1..Len(new_data[j].cols) |-> Flatten(new_data[j].cols[i])]]]

\* The states the loop of balance can end in.
BalanceRuns(d, batch_size, shuffle, label_key) ==
    LET counts_label_ids == CountsLabelIds(CreateLabelIds(Get(d, label_key)[1]))
        num_label_ids == Len(counts_label_ids)
        start == [data_idx |-> [c \in 1..num_label_ids |-> 0],
                  num_data_cycles |-> [c \in 1..num_label_ids |-> 0],
                  skipped |-> [c \in 1..num_label_ids |-> FALSE],
                  log |-> <<>>,
                  taken |-> <<>>,
                  visits |-> <<>>]
    IN  UNION {RunRounds(ctx.start, ctx.counts, ctx.num_examples, batch_size, shuffle) :
               ctx \in {[start |-> start, counts |-> counts_label_ids,
                         num_examples |-> GetNumberOfExamples(d)]}}

\* The table balance assigns to self.data when its loop ended in st.
BalanceData(d, label_key, st) ==
    LET label_ids == CreateLabelIds(Get(d, label_key)[1])
    IN  FinalData(NewData(SplitByLabelIds(d, label_ids, UniqueLabelIds(label_ids)),
                          st.taken))

\* The tables balance can assign to self.data.
BalanceOutcomes(d, batch_size, shuffle, label_key) ==
    LET label_ids == CreateLabelIds(Get(d, label_key)[1])
    IN  UNION {{FinalData(NewData(label_data, st.taken)) :
                   st \in BalanceRuns(d, batch_size, shuffle, label_key)} :
               label_data \in {SplitByLabelIds(d, label_ids, UniqueLabelIds(label_ids))}}

\* The tables the model lets balance run on.
BalanceInBounds(d, label_key) ==
    \/ GetNumberOfExamples(d) <= BalanceRows
    \/ Get(d, label_key)[1] \in LongLabelCols

Balance ==
    \E label_key \in LabelKeys :
        /\ Building
        /\ op' = "balance"
        /\ pre' = data
        /\ err' = BalanceErr(data, label_key)
        /\ IF err' = "none"
           THEN /\ BalanceInBounds(data, label_key)
                /\ \E batch_size \in 1..MaxBatch : \E shuffle \in BOOLEAN :
                      /\ args' = [label_key |-> label_key, batch_size |-> batch_size]
                      /\ \E st \in BalanceRuns(data, batch_size, shuffle, label_key) :
                            /\ run' = st
                            /\ data' = BalanceData(data, label_key, st)
           ELSE /\ args' = [label_key |-> label_key]
                /\ data' = data
                /\ run' = run
        /\ UNCHANGED <<train, test, batches, result>>

\* ------------------------------------------------- _check_train_test_sizes
\* The size check without the test for a held-out set that is too small.
CheckTrainTestSizesErrLargeOnly(d, number_of_test_examples, num_labels) ==
    IF GetNumberOfExamplesErr(d) # "none" THEN GetNumberOfExamplesErr(d)
    ELSE IF number_of_test_examples >= GetNumberOfExamples(d) - num_labels THEN "TooLarge"
    ELSE "none"

\* The size check with the two comparisons in the other order.
CheckTrainTestSizesErrSmallFirst(d, number_of_test_examples, num_labels) ==
    IF GetNumberOfExamplesErr(d) # "none" THEN GetNumberOfExamplesErr(d)
    ELSE IF number_of_test_examples < num_labels THEN "TooSmall"
    ELSE IF number_of_test_examples >= GetNumberOfExamples(d) - num_labels THEN "TooLarge"
    ELSE "none"

CheckTrainTestSizesErr(d, number_of_test_examples, num_labels) ==
    IF GetNumberOfExamplesErr(d) # "none" THEN GetNumberOfExamplesErr(d)
    ELSE IF number_of_test_examples >= GetNumberOfExamples(d) - num_labels THEN "TooLarge"
    ELSE IF number_of_test_examples < num_labels THEN "TooSmall"
    ELSE "none"

\* -------------------------------------------------------- train_test_split
\* sklearn's stratified train_test_split(*arrays, test_size=n, stratify=y):
\* it refuses a class of one member and a side smaller than the number of
\* classes; otherwise it draws index arrays train and test that partition the
\* rows, test holding n of them, and returns a[train], a[test] for every array
\* in turn.  Which rows go where, and in which order, is the library's draw;
\* the draw is not held to the class proportions that stratifying keeps.
TrainTestSplitErr(stratify, test_size) ==
    LET n_samples == Len(stratify)
        n_classes == Cardinality(Range(stratify))
    IN  IF test_size >= n_samples \/ test_size <= 0 THEN "SplitValueError"
        ELSE IF \E i \in 1..n_samples : CountOf(stratify, stratify[i]) < 2
             THEN "SplitValueError"
        ELSE IF n_samples - test_size < n_classes \/ test_size < n_classes
             THEN "SplitValueError"
        ELSE "none"

Ascending(S) == SortedSeq(S)

Descending(S) == [i \in 1..Cardinality(S) |-> SortedSeq(S)[Cardinality(S) + 1 - i]]

\* Every partition of the rows with test_size of them in test; of the orders
\* the library can give each side, the ascending and the descending one.
SplitDraws(n_samples, test_size) ==
    UNION {{[test |-> a, train |-> b] :
               a \in {Ascending(S), Descending(S)},
               b \in {Ascending((1..n_samples) \ S), Descending((1..n_samples) \ S)}} :
           S \in {T \in SUBSET (1..n_samples) : Cardinality(T) = test_size}}

TrainTestSplit(arrays, draw) ==
    [x \in 1..(2 * Len(arrays)) |->
        IF x % 2 = 1 THEN Take(arrays[(x + 1) \div 2], draw.train)
        ELSE Take(arrays[x \div 2], draw.test)]

\* ------------------------------------------------------- _combine_features
\* np.concatenate([feature_1, feature_2])
CombineFeatures(feature_1, feature_2) == feature_1 \o feature_2

\* ----------------------------------------------- _convert_train_test_split
\* index counts the columns in the order of self.data.items(); 0-based in the
\* source, where output_values[index * 2] is the train part of column index
\* and output_values[index * 2 + 1] its test part.
ColumnIndex(d, j, i) == SumSeq([x \in 1..(j - 1) |-> Len(d[x].cols)]) + i

\* A train column that is given the singleton rows of the first column.
TrainColumnFirstSolo(output_values, solo_values, index) ==
    CombineFeatures(output_values[2 * index - 1], solo_values[1])

TrainColumn(output_values, solo_values, index) ==
    CombineFeatures(output_values[2 * index - 1], solo_values[index])

ValColumn(output_values, index) == output_values[2 * index]

\* data_train and data_val are defaultdicts: a key without columns is absent.
ConvertTrainTestSplit(d, output_values, solo_values) ==
    [train |-> [j \in 1..Len(d) |->
                  [key |-> d[j].key,
                   cols |-> [i \in 1..Len(d[j].cols) |->
                               TrainColumn(output_values, solo_values, ColumnIndex(d, j, i))]]],
     test |-> [j \in 1..Len(d) |->
                 [key |-> d[j].key,
                  cols |-> [i \in 1..Len(d[j].cols) |->
                              ValColumn(output_values, ColumnIndex(d, j, i))]]]]

\* ------------------------------------------------------------------ split
\* counts = np.array([label_counts[label] for label in label_ids])
LabelCounts(label_ids) == [i \in 1..Len(label_ids) |-> CountOf(label_ids, label_ids[i])]

\* The row indices a boolean mask keeps.
Where(mask) == SelectSeq([i \in 1..Len(mask) |-> i], LAMBDA i : mask[i])

MultiIds(counts) == Where([i \in 1..Len(counts) |-> counts[i] > 1])

SoloIds(counts) == Where([i \in 1..Len(counts) |-> counts[i] = 1])

\* What split raises, "none" if it returns.
SplitErr(d, number_of_test_examples, label_key) ==
    IF CheckLabelKeyErr(d, label_key) # "none" THEN "KeyNotIn"
    ELSE IF Get(d, label_key) = <<>> THEN "IndexError"
    ELSE LET label_ids == CreateLabelIds(Get(d, label_key)[1])
             sizes == CheckTrainTestSizesErr(d, number_of_test_examples,
                                             Cardinality(Range(label_ids)))
         IN  IF sizes # "none" THEN sizes
             ELSE TrainTestSplitErr(Take(label_ids, MultiIds(LabelCounts(label_ids))),
                                    number_of_test_examples)

SplitResult(d, cols, ids, draw) ==
    ConvertTrainTestSplit(d,
        TrainTestSplit([x \in 1..Len(cols) |-> Take(cols[x], ids.multi)], draw),
        [x \in 1..Len(cols) |-> Take(cols[x], ids.solo)])

\* The (train, test) pairs split can return.
SplitOutcomes(d, number_of_test_examples, label_key) ==
    UNION {{SplitResult(touched, AllCols(d), ids, draw) :
               draw \in SplitDraws(Len(ids.multi), number_of_test_examples)} :
           ids \in {[multi |-> MultiIds(counts), solo |-> SoloIds(counts)] :
                      counts \in {LabelCounts(CreateLabelIds(Get(d, label_key)[1]))}},
           touched \in {SelectSeq(d, LAMBDA e : Len(e.cols) > 0)}}

Split ==
    \E number_of_test_examples \in 0..MaxRows : \E label_key \in LabelKeys :
        /\ Building
        /\ op' = "split"
        /\ args' = [label_key |-> label_key, n |-> number_of_test_examples]
        /\ pre' = data
        /\ err' = SplitErr(data, number_of_test_examples, label_key)
        /\ data' = data
        /\ IF err' = "none"
           THEN /\ GetNumberOfExamples(data) <= MaxRows
                /\ \E out \in SplitOutcomes(data, number_of_test_examples, label_key) :
                      /\ train' = out.train
                      /\ test' = out.test
           ELSE UNCHANGED <<train, test>>
        /\ UNCHANGED <<batches, result, run>>

\* ------------------------------------------------------------- _gen_batch
\* train_utils.prepare_batch(self.data, start, end) is not part of this file:
\* a batch is the row range [start, end) of every column.
PrepareBatch(d, start, end) ==
    [start |-> start,
     end |-> end,
     data |-> [j \in 1..Len(d) |->
                 [key |-> d[j].key,
                  cols |-> [i \in 1..Len(d[j].cols) |-> Slice(d[j].cols[i], start, end)]]]]

\* A batch count without the batch for the remainder.
NumBatchesFloor(num_examples, batch_size) == num_examples \div batch_size

\* num_examples // batch_size + int(num_examples % batch_size > 0)
NumBatches(num_examples, batch_size) ==
    num_examples \div batch_size + (IF num_examples % batch_size > 0 THEN 1 ELSE 0)

\* for batch_num in range(num_batches): start, end = batch_num * batch_size,
\* start + batch_size
Batches(d, batch_size) ==
    [k \in 1..NumBatches(GetNumberOfExamples(d), batch_size) |->
        PrepareBatch(d, (k - 1) * batch_size, (k - 1) * batch_size + batch_size)]

\* if shuffle: self.shuffle()
GenBatchShuffled(d, shuffle) ==
    IF ~shuffle THEN {[err |-> "none", data |-> d]}
    ELSE IF ShuffleErr(d) # "none" THEN {[err |-> ShuffleErr(d), data |-> d]}
    ELSE {[err |-> "none", data |-> x] : x \in ShuffleOutcomes(d)}

\* if batch_strategy == "balanced": self.balance(batch_size, shuffle, label_key)
GenBatchBalanced(r, batch_size, label_key, batch_strategy, shuffle) ==
    IF r.err # "none" \/ batch_strategy # "balanced" THEN {r}
    ELSE IF BalanceErr(r.data, label_key) # "none"
         THEN {[err |-> BalanceErr(r.data, label_key), data |-> r.data]}
    ELSE {[err |-> "none", data |-> x] :
             x \in BalanceOutcomes(r.data, batch_size, shuffle, label_key)}

\* num_examples = self.get_number_of_examples()
GenBatchCounted(r) ==
    IF r.err # "none" THEN r ELSE [err |-> GetNumberOfExamplesErr(r.data), data |-> r.data]

\* What the generator leaves: what it raised and the table at that point.
GenBatchOutcomes(d, batch_size, label_key, batch_strategy, shuffle) ==
    {GenBatchCounted(r2) :
        r2 \in UNION {GenBatchBalanced(r1, batch_size, label_key, batch_strategy, shuffle) :
                        r1 \in GenBatchShuffled(d, shuffle)}}

\* The rows the model lets _gen_batch permute and balance.
GenBatchInBounds(d, batch_strategy, shuffle) ==
    GetNumberOfExamplesErr(d) = "none" =>
        /\ shuffle => GetNumberOfExamples(d) <= ShuffleRows
        /\ batch_strategy = "balanced" => GetNumberOfExamples(d) <= BalanceRows

GenBatch ==
    \E batch_strategy \in {"sequence", "balanced"} : \E shuffle \in BOOLEAN :
    \E label_key \in (IF batch_strategy = "balanced" THEN LabelKeys ELSE {"label"}) :
    \E batch_size \in 1..MaxBatch :
        /\ Building
        /\ GenBatchInBounds(data, batch_strategy, shuffle)
        /\ op' = "gen_batch"
        /\ pre' = data
        /\ \E r \in GenBatchOutcomes(data, batch_size, label_key, batch_strategy, shuffle) :
              /\ err' = r.err
              /\ data' = r.data
              /\ IF r.err = "none"
                 THEN /\ batches' = Batches(r.data, batch_size)
                      /\ args' = [batch_strategy |-> batch_strategy, shuffle |-> shuffle,
                                  label_key |-> label_key, batch_size |-> batch_size]
                 ELSE /\ batches' = batches
                      /\ args' = [batch_strategy |-> batch_strategy, shuffle |-> shuffle,
                                  label_key |-> label_key]
        /\ UNCHANGED <<train, test, result, run>>

Build == AddFeatures \/ AddMask

Next ==
    \/ AddFeatures
    \/ AddMask
    \/ GetNumberOfExamplesCall
    \/ Shuffle
    \/ Balance
    \/ Split
    \/ GenBatch

Spec == Init /\ [][Next]_vars

\* Building a table, and building a table and one operation on it.
NextBuild == AddFeatures \/ AddMask

SpecBuild == Init /\ [][NextBuild]_vars

NextCount == AddFeatures \/ AddMask \/ GetNumberOfExamplesCall

SpecCount == Init /\ [][NextCount]_vars

NextShuffle == AddFeatures \/ AddMask \/ Shuffle

SpecShuffle == Init /\ [][NextShuffle]_vars

NextBalance == AddFeatures \/ AddMask \/ Balance

SpecBalance == Init /\ [][NextBalance]_vars

NextSplit == AddFeatures \/ AddMask \/ Split

SpecSplit == Init /\ [][NextSplit]_vars

NextGenBatch == AddFeatures \/ AddMask \/ GenBatch

SpecGenBatch == Init /\ [][NextGenBatch]_vars

\* ---------------------------------------------------- reading the history
\* Row r of a table: its entries in every column of every key.
RowAt(d, r) == [x \in 1..Len(AllCols(d)) |-> AllCols(d)[x][r]]

\* The rows of a table, in order.
Rows(d) ==
    CHOOSE rows \in {[r \in 1..Len(cols[1]) |-> [x \in 1..Len(cols) |-> cols[x][r]]] :
                       cols \in {AllCols(d)}} : TRUE

\* How often a row occurs among rows.
TimesIn(rows, row) == Cardinality({r \in 1..Len(rows) : rows[r] = row})

\* How often a row occurs in a table.
RowCount(d, row) ==
    Cardinality({r \in 1..GetNumberOfExamples(d) : RowAt(d, r) = row})

\* The same keys in the same order, with as many columns each.
SameShape(a, b) ==
    /\ DictKeys(a) = DictKeys(b)
    /\ \A j \in 1..Len(a) : Len(a[j].cols) = Len(b[j].cols)

\* Every column of the table has n rows.
AllOfLength(d, n) == \A x \in 1..Len(AllCols(d)) : Len(AllCols(d)[x]) = n

Returned(name) == op = name /\ err = "none"

\* The label ids of the table the last call was made on.
PreLabelIds == CreateLabelIds(Get(pre, args.label_key)[1])

\* --------------------------------------------------------------------- C1
\* C1 as stated: a call of balance that returns leaves the table with the
\* same number of rows and the same multiset of rows.
C1_BalanceKeepsMultiset ==
    Returned("balance") =>
        /\ GetNumberOfExamples(data) = GetNumberOfExamples(pre)
        /\ \A r \in 1..GetNumberOfExamples(pre) :
              RowCount(data, RowAt(pre, r)) = RowCount(pre, RowAt(pre, r))

\* C1: a call of balance that returns leaves a table that holds every input
\* row at least as often as the input did and no row that is not an input
\* row; rows may be repeated, so the table has at least as many rows as before.
C1_BalanceKeepsEveryRow ==
    Returned("balance") =>
        \A before \in {Rows(pre)} : \A after \in {Rows(data)} :
            /\ Len(after) >= Len(before)
            /\ \A r \in 1..Len(before) :
                  TimesIn(after, before[r]) >= TimesIn(before, before[r])
            /\ \A p \in 1..Len(after) : \E r \in 1..Len(before) : after[p] = before[r]

\* balance returned on a table of several classes and repeated a row.
C1_Witness ==
    /\ Returned("balance")
    /\ Cardinality(Range(PreLabelIds)) >= 2
    /\ Len(AllCols(pre)) >= 2
    /\ GetNumberOfExamples(data) > GetNumberOfExamples(pre)

\* --------------------------------------------------------------------- C2
\* C2: a call of add_features, shuffle, balance or _gen_batch that raises
\* leaves the table as it was before the call.
C2_FailedCallLeavesTable ==
    (op \in {"add_features", "shuffle", "balance", "gen_batch"} /\ err # "none") =>
        data = pre

\* --------------------------------------------------------------------- C3
\* C3: after a split that returns, no row of the test table carries a label
\* id that occurs once in the source, and every column of the train table ends
\* with the singleton rows of the source column at the same place, in order.
C3_SingletonsStayInTrain ==
    Returned("split") =>
        LET solo == SoloIds(LabelCounts(PreLabelIds))
            test_ids == CreateLabelIds(Get(test, args.label_key)[1])
        IN  /\ \A q \in 1..Len(test_ids) : CountOf(PreLabelIds, test_ids[q]) > 1
            /\ Len(AllCols(train)) = Len(AllCols(pre))
            /\ \A x \in 1..Len(AllCols(pre)) :
                  SubSeq(AllCols(train)[x], Len(AllCols(train)[x]) - Len(solo) + 1,
                         Len(AllCols(train)[x]))
                    = Take(AllCols(pre)[x], solo)

\* split returned on a table of several columns with a singleton class.
C3_Witness ==
    /\ Returned("split")
    /\ Len(AllCols(pre)) >= 3
    /\ SoloIds(LabelCounts(PreLabelIds)) # <<>>

\* --------------------------------------------------------------------- C4
\* C4: after a split(n) that returns on N rows of which S are singletons, the
\* test table has n rows and the train table (N - S - n) + S, in every column;
\* every source row is in exactly one of the two; both have the keys of the
\* source in its order with as many columns per key.
C4_SplitPartitions ==
    Returned("split") =>
        LET n_rows == GetNumberOfExamples(pre)
            n_solo == Len(SoloIds(LabelCounts(PreLabelIds)))
        IN  /\ AllOfLength(test, args.n)
            /\ AllOfLength(train, (n_rows - n_solo - args.n) + n_solo)
            /\ \A r \in 1..n_rows :
                  RowCount(train, RowAt(pre, r)) + RowCount(test, RowAt(pre, r))
                    = RowCount(pre, RowAt(pre, r))
            /\ SameShape(pre, train)
            /\ SameShape(pre, test)

\* --------------------------------------------------------------------- C5
\* split got as far as the size check: the label key is one column and the
\* columns agree on the number of rows.
SizesChecked ==
    /\ op = "split"
    /\ CheckLabelKeyErr(pre, args.label_key) = "none"
    /\ Get(pre, args.label_key) # <<>>
    /\ GetNumberOfExamplesErr(pre) = "none"

\* C5: split(n) on N rows with C label ids is refused as too large exactly
\* when N - n < C.
C5_TooLargeExactly ==
    SizesChecked =>
        (err = "TooLarge"
            <=> GetNumberOfExamples(pre) - args.n < Cardinality(Range(PreLabelIds)))

C7_BatchesCoverTable ==
    Returned("gen_batch") =>
        LET n_rows == GetNumberOfExamples(data)
            b == args.batch_size
            n_batches == (n_rows + b - 1) \div b
        IN  /\ Len(batches) = n_batches
            /\ \A k \in 1..Len(batches) :
                  /\ batches[k].start = (k - 1) * b
                  /\ SameShape(batches[k].data, data)
                  /\ \A x \in 1..Len(AllCols(data)) :
                        AllCols(batches[k].data)[x]
                          = SubSeq(AllCols(data)[x], (k - 1) * b + 1, Min(k * b, n_rows))
                  /\ AllOfLength(batches[k].data,
                                 IF k < n_batches THEN b ELSE n_rows - (n_batches - 1) * b)
            /\ \A x \in 1..Len(AllCols(data)) :
                  Flatten([k \in 1..Len(batches) |-> AllCols(batches[k].data)[x]])
                    = AllCols(data)[x]

\* The generator yielded three batches, the last one shorter.
C7_Witness ==
    /\ Returned("gen_batch")
    /\ Len(batches) = 3
    /\ Len(AllCols(pre)) >= 2
    /\ AllOfLength(batches[1].data, args.batch_size)
    /\ AllOfLength(batches[3].data, args.batch_size - 1)

\* --------------------------------------------------------------------- C8
\* C8: a call of balance that returns leaves the keys and the number of
\* columns per key as they were, all columns of one length, and every output
\* position holds, in every column, the entries of one input row.
C8_BalanceKeepsShapeAndAlignment ==
    Returned("balance") =>
        /\ SameShape(pre, data)
        /\ AllOfLength(data, GetNumberOfExamples(data))
        /\ \A p \in 1..GetNumberOfExamples(data) :
              \E r \in 1..GetNumberOfExamples(pre) : RowAt(data, p) = RowAt(pre, r)

\* --------------------------------------------------------------------- C9
\* C9: a call of shuffle that returns applied one permutation of the rows to
\* every column, and left the keys and the number of columns per key.
C9_ShuffleIsOnePermutation ==
    Returned("shuffle") =>
        /\ SameShape(pre, data)
        /\ \E ids \in PermSeqs(GetNumberOfExamples(pre)) :
              \A x \in 1..Len(AllCols(pre)) :
                  AllCols(data)[x] = Take(AllCols(pre)[x], ids)

\* -------------------------------------------------------------------- C10
\* C10 as stated: add_features on a key that is present raises, whatever the
\* column list, and leaves the table.
C10_DuplicateKeyAlwaysRaises ==
    (op = "add_features" /\ HasKey(pre, args.key)) =>
        (err = "KeyExists" /\ data = pre)

\* C10: add_features on a key that is present raises when the column list is
\* not empty, also when all its columns are without elements, and returns
\* without an error when the list is empty; either way the table is left.
C10_DuplicateKeyRaisesUnlessNoColumns ==
    (op = "add_features" /\ HasKey(pre, args.key)) =>
        /\ err = IF args.given = 0 THEN "none" ELSE "KeyExists"
        /\ data = pre

\* add_features raised on a present key for a list of columns without elements.
C10_Witness ==
    /\ op = "add_features"
    /\ HasKey(pre, args.key)
    /\ Get(pre, args.key) # <<>>
    /\ args.given > 0
    /\ args.kept = 0
    /\ err = "KeyExists"
\* -------------------------------------------------------------------- C11
\* Two columns of the table, under one key or two, differ in their row count.
ColumnsDisagree(d) ==
    \E x, y \in 1..Len(AllCols(d)) : Len(AllCols(d)[x]) # Len(AllCols(d)[y])

\* C11: get_number_of_examples raises the size error exactly when two columns
\* disagree on the row count, on every table, also one without keys or
\* columns; otherwise it returns the row count all columns share.
C11_SizeErrorIffColumnsDisagree ==
    op = "get_number_of_examples" =>
        /\ err = "SizesDiffer" <=> ColumnsDisagree(pre)
        /\ ~ColumnsDisagree(pre) =>
              /\ err = "none"
              /\ AllOfLength(pre, result)

\* ------------------------------------------------ the last call of balance
\* The row count n_c of every class of the table balance was called on, in
\* the order of the sorted label ids.
ClassCounts == CountsLabelIds(PreLabelIds)

\* floor(n_c * batch_size / N) + 1
SliceLength(c) ==
    (ClassCounts[c] * args.batch_size) \div GetNumberOfExamples(pre) + 1

\* ceil(n_c / s_c)
RoundsOf(c) == (ClassCounts[c] + SliceLength(c) - 1) \div SliceLength(c)

Classes == 1..Len(ClassCounts)

\* The figures of the last call of balance, class by class: row count, slice
\* length, rounds for one pass, and the visits.
BalanceCall ==
    CHOOSE call \in
        {[counts |-> counts,
          slices |-> [c \in DOMAIN counts |-> (counts[c] * args.batch_size) \div n + 1],
          rounds |-> [c \in DOMAIN counts |->
                        (counts[c] + (counts[c] * args.batch_size) \div n)
                            \div ((counts[c] * args.batch_size) \div n + 1)],
          visits |-> [c \in DOMAIN counts |->
                        SelectSeq(run.visits, LAMBDA v : v.index = c)]] :
            counts \in {ClassCounts}, n \in {GetNumberOfExamples(pre)}} : TRUE

\* -------------------------------------------------------------------- C12
\* C12: a call of balance on a table with a valid label key returns; a class
\* with pass counter 0 is never skipped and its cursor moves on by its slice
\* length s_c >= 1 in every round, so the loop starts max_c ceil(n_c / s_c)
\* rounds and ends with every pass counter >= 1.
C12_BalanceEndsAfterMaxRounds ==
    Returned("balance") =>
        \A call \in {BalanceCall} :
            /\ \A c \in DOMAIN call.counts : call.slices[c] >= 1 /\ run.num_data_cycles[c] >= 1
            /\ \E c \in DOMAIN call.counts : Len(run.log) = call.rounds[c]
            /\ \A c \in DOMAIN call.counts : Len(run.log) >= call.rounds[c]
            /\ \A c \in DOMAIN call.counts : \A r \in 1..call.rounds[c] : run.log[r][c] = "taken"
            /\ \A v \in 1..Len(run.visits) :
                  run.visits[v].num_data_cycles = 0 =>
                      LET reached == run.visits[v].data_idx + call.slices[run.visits[v].index]
                      IN  /\ run.visits[v].outcome = "taken"
                          /\ IF reached >= call.counts[run.visits[v].index]
                             THEN /\ run.visits[v].after.data_idx = 0
                                  /\ run.visits[v].after.num_data_cycles = 1
                             ELSE /\ run.visits[v].after.data_idx = reached
                                  /\ run.visits[v].after.num_data_cycles = 0

\* balance returned after three rounds on a table of two classes or more.
C12_Witness ==
    /\ Returned("balance")
    /\ Len(ClassCounts) >= 2
    /\ Len(run.log) >= 3
    /\ \E c \in Classes : RoundsOf(c) = 1

\* -------------------------------------------------------------------- C13
\* The rows of class c in the table balance was called on, in order.
ClassRows(c) == MaskIds(PreLabelIds, UniqueLabelIds(PreLabelIds)[c])

\* The places of the rows of class c in the table balance left, in order.
OutputPlaces(c) ==
    MaskIds(CreateLabelIds(Get(data, args.label_key)[1]), UniqueLabelIds(PreLabelIds)[c])

\* The visits of class c, in order.
VisitsOf(c) == SelectSeq(run.visits, LAMBDA v : v.index = c)

\* C13: after balance, the rows of every class c, read in output order, are
\* its input rows in order, pass after pass: k_c >= 1 complete passes and a
\* proper prefix of one more, as long as the cursor the call ended with.  The
\* cursor of a class is in [0, n_c) around every visit, a visit that is not
\* skipped emits the rows [cursor, min(cursor + s_c, n_c)), and the cursor goes
\* back to 0 exactly when cursor + s_c reaches n_c.  So no row is missing and
\* no two rows of a class differ by more than one in how often they appear
\* (counted where the table has the columns that tell all its rows apart).
C13_ClassRowsArePasses ==
    Returned("balance") =>
        \A call \in {BalanceCall} : \A before \in {Rows(pre)} : \A after \in {Rows(data)} :
        \A c \in DOMAIN call.counts :
        \A ids \in {ClassRows(c)} : \A out \in {OutputPlaces(c)} :
            LET n_c == call.counts[c]
                visits == call.visits[c]
                emitted == SumSeq([v \in 1..Len(visits) |->
                              IF visits[v].outcome = "taken"
                              THEN Min(visits[v].data_idx + call.slices[c], n_c)
                                     - visits[v].data_idx
                              ELSE 0])
            IN  /\ Len(ids) = n_c
                /\ Len(out) >= n_c
                /\ Len(out) = emitted
                /\ \A i \in 1..Len(out) : after[out[i]] = before[ids[((i - 1) % n_c) + 1]]
                /\ Len(out) \div n_c = run.num_data_cycles[c]
                /\ Len(out) % n_c = run.data_idx[c]
                /\ \A v \in 1..Len(visits) :
                      /\ visits[v].data_idx \in 0..(n_c - 1)
                      /\ visits[v].after.data_idx \in 0..(n_c - 1)
                      /\ visits[v].outcome = "taken" =>
                            (visits[v].after.data_idx = 0
                               <=> visits[v].data_idx + call.slices[c] >= n_c)
                /\ \A times \in {[j \in 1..n_c |-> TimesIn(after, before[ids[j]])]} :
                      \A j, k \in 1..n_c :
                          /\ times[j] >= 1
                          /\ Len(before[1]) >= 3 => times[j] - times[k] <= 1

\* balance left a class of several rows with a complete pass and a part of
\* the next one, in a table of several columns.
C13_Witness ==
    /\ Returned("balance")
    /\ Len(AllCols(pre)) >= 2
    /\ \E c \in Classes :
          /\ ClassCounts[c] >= 2
          /\ run.num_data_cycles[c] >= 1
          /\ run.data_idx[c] >= 1

\* -------------------------------------------------------------------- C14
\* C14: in a call of balance, a visited class is skipped exactly when its
\* pass counter is >= 1 and its skip flag clear: then it gives no slice, its
\* cursor and pass counter stay and its flag is set; otherwise its flag is
\* cleared and it gives a slice.  So a class with pass counter 0 gives a slice
\* in every round it is visited in, and one that has completed a pass neither
\* gives a slice nor is skipped in two rounds running.
C14_SkipOnce ==
    Returned("balance") =>
        \A call \in {BalanceCall} :
            /\ \A v \in 1..Len(run.visits) :
                  LET visit == run.visits[v]
                  IN  /\ visit.outcome = "skipped"
                            <=> (visit.num_data_cycles >= 1 /\ ~visit.skipped)
                      /\ visit.outcome = "skipped" =>
                            /\ visit.after.data_idx = visit.data_idx
                            /\ visit.after.num_data_cycles = visit.num_data_cycles
                            /\ visit.after.skipped
                      /\ visit.outcome # "skipped" =>
                            /\ visit.outcome = "taken"
                            /\ ~visit.after.skipped
                      /\ visit.num_data_cycles = 0 => visit.outcome = "taken"
            /\ Len(run.taken) = Len(SelectSeq(run.visits, LAMBDA v : v.outcome = "taken"))
            /\ \A c \in DOMAIN call.counts :
                  \A visits \in {call.visits[c]} :
                      /\ visits # <<>>
                      /\ visits[1].data_idx = 0
                      /\ visits[1].num_data_cycles = 0
                      /\ ~visits[1].skipped
                      /\ \A v \in 1..(Len(visits) - 1) :
                            /\ visits[v + 1].round = visits[v].round + 1
                            /\ visits[v + 1].data_idx = visits[v].after.data_idx
                            /\ visits[v + 1].num_data_cycles = visits[v].after.num_data_cycles
                            /\ visits[v + 1].skipped = visits[v].after.skipped
                            /\ visits[v].after.num_data_cycles >= 1 =>
                                  visits[v + 1].outcome # visits[v].outcome

\* In a call of balance a class completed a pass, was skipped in the next
\* round and gave a slice in the one after.
C14_Witness ==
    /\ Returned("balance")
    /\ \E c \in Classes :
          \E v \in 1..(Len(VisitsOf(c)) - 2) :
              /\ VisitsOf(c)[v].outcome = "taken"
              /\ VisitsOf(c)[v].after.num_data_cycles = 1
              /\ VisitsOf(c)[v + 1].outcome = "skipped"
              /\ VisitsOf(c)[v + 2].outcome = "taken"

\* -------------------------------------------------------------------- C15
\* The pass counter of class c after the first v visits of the call.
CyclesAfter(c, v) ==
    LET seen == SelectSeq(SubSeq(run.visits, 1, v), LAMBDA x : x.index = c)
    IN  IF seen = <<>> THEN 0 ELSE seen[Len(seen)].after.num_data_cycles

\* C15: once every class has pass counter >= 1, balance appends no slice and
\* visits no class, in this round or a later one: the last visit of the call
\* is the one whose slice completes the first pass of the class that finishes
\* last, it ends the output, and that class ends with pass counter 1.
C15_EarlyExit ==
    Returned("balance") =>
        \A call \in {BalanceCall} :
            LET last == run.visits[Len(run.visits)]
                slice == run.taken[Len(run.taken)]
            IN  /\ \A v \in 1..(Len(run.visits) - 1) : \E c \in DOMAIN call.counts : CyclesAfter(c, v) = 0
                /\ \A c \in DOMAIN call.counts : CyclesAfter(c, Len(run.visits)) >= 1
                /\ last.outcome = "taken"
                /\ last.round = Len(run.log)
                /\ last.num_data_cycles = 0
                /\ last.after.num_data_cycles = 1
                /\ run.num_data_cycles[last.index] = 1
                /\ slice.index = last.index
                /\ slice.from = last.data_idx
                /\ slice.from + slice.size >= call.counts[last.index]
                /\ \A c \in DOMAIN call.counts :
                      run.log[Len(run.log)][c] = "unvisited"
                          <=> \A v \in 1..Len(call.visits[c]) : call.visits[c][v].round < Len(run.log)
                /\ \A after \in {Rows(data)} :
                      after[Len(after)]
                        = Rows(pre)[ClassRows(last.index)[call.counts[last.index]]]

\* balance broke off a round before a class that was still to be visited.
C15_Witness ==
    /\ Returned("balance")
    /\ Len(run.log) >= 2
    /\ \E c \in Classes :
          /\ run.log[Len(run.log)][c] = "unvisited"
          /\ run.num_data_cycles[c] >= 1

\* -------------------------------------------------------------------- C16
\* C16: while a table is built by add_features and add_mask, every key of it
\* has a list of columns that is not empty, and every column has elements;
\* add_features with a list that is empty or has only columns without
\* elements leaves the key absent, and add_mask from an absent or empty key
\* changes nothing.
C16_KeysHaveColumns ==
    /\ \A j \in 1..Len(data) :
          /\ data[j].cols # <<>>
          /\ \A i \in 1..Len(data[j].cols) : Size(data[j].cols[i]) > 0
    /\ (op = "add_features" /\ ~HasKey(pre, args.key) /\ args.kept = 0) =>
          (~HasKey(data, args.key) /\ data = pre)
    /\ (op = "add_mask"
          /\ (~HasKey(pre, args.from_key) \/ Get(pre, args.from_key) = <<>>)) =>
          data = pre

\* -------------------------------------------------------------------- C17
\* The number S of rows whose label id occurs once in the table split was
\* called on.
Singletons == Len(SoloIds(LabelCounts(PreLabelIds)))

\* split passed the size check.
SizesAccepted ==
    /\ SizesChecked
    /\ err \notin {"TooLarge", "TooSmall"}

\* C17: when the size check accepts split(n) on N rows with C label ids, S of
\* them singletons, the stratified split of the other rows can be made: there
\* is such a row, C - S <= n < N - S, N - S - n >= C - S, and split returns.
\* A table of singletons only is accepted for no n.
C17_AcceptedSplitIsFeasible ==
    /\ SizesAccepted =>
          LET n_rows == GetNumberOfExamples(pre)
              n_labels == Cardinality(Range(PreLabelIds))
          IN  /\ n_rows - Singletons >= 1
              /\ args.n >= n_labels - Singletons
              /\ args.n < n_rows - Singletons
              /\ n_rows - Singletons - args.n >= n_labels - Singletons
              /\ TrainTestSplitErr(Take(PreLabelIds, MultiIds(LabelCounts(PreLabelIds))),
                                   args.n) = "none"
              /\ err = "none"
    /\ (SizesChecked /\ Singletons = GetNumberOfExamples(pre)) =>
          err \in {"TooLarge", "TooSmall"}

\* The size check accepted a split of a table with a singleton class.
C17_Witness ==
    /\ SizesAccepted
    /\ Singletons >= 1
    /\ Len(test[1].cols[1]) = args.n
====
